---- MODULE Spec2Model ----
(***************************************************************************)
(* LineupOptimizerTool (src/src/tools/LineupOptimizerTool.ts): the         *)
(* synchronous part of execute that follows the upstream fetches -- the    *)
(* projection map, the player pool, groupPlayersByPosition, the slot loop  *)
(* of optimizeLineup, the totals and findLineupChanges -- as a state       *)
(* machine.                                                                *)
(*                                                                         *)
(* Units.  An upstream pts_ppr value is held in thousandths of a point     *)
(* (20.000 is 20000).  Number(x.toFixed(2)) is ToFixed2, which yields      *)
(* hundredths of a point (20.00 is 2000); x.toFixed(1) is ToFixed1, which  *)
(* yields tenths.  The pass-through fields name and team of a pool player  *)
(* are not read by any decision of the code and are left out.              *)
(***************************************************************************)
EXTENDS Integers, Sequences, FiniteSets, TLC

VARIABLES
    roster,             \* myRoster: [players |-> sequence of player ids]
    rosterPositions,    \* league.roster_positions, the ordered slot list
    pc,                 \* position inside execute
    playerProjections,  \* Map playerId -> projected points (line 87)
    playerPool,         \* line 92
    playersByPosition,  \* line 111: [keys |-> insertion order, groups |-> arrays]
    slotIndex,          \* index of rosterPositions.forEach (line 197), from 1
    usedPlayers,        \* line 194
    lineup,             \* line 193
    optimalProjection,  \* line 122
    totalProjected,     \* line 150
    results,            \* the lineups returned by the calls made so far
    currentStarters,    \* line 115: myRoster.starters
    currentProjection,  \* line 118
    changes,            \* line 126
    failure,            \* the message of the error execute rejects with, or ""
    analysis,           \* lines 153-158: projectedImprovement, isOptimal
    request,            \* the params of the CallTool request being handled
    response,           \* what the CallTool handler resolved with, if it has
    sleeper,            \* the upstream data of each configured league
    fetchesIssued,      \* the fetches of the Promise.all awaited last
    settled,            \* those of them settled so far, in the order they settled
    outOfOrder,         \* the awaits ("core", "fanout") with a fetch settled before an earlier one
    suspended,          \* the locals of the other call in progress, if any
    active              \* the call the locals above belong to

vars == <<roster, rosterPositions, pc, playerProjections, playerPool,
          playersByPosition, slotIndex, usedPlayers, lineup,
          optimalProjection, totalProjected, results,
          currentStarters, currentProjection, changes, failure, analysis,
          request, response, sleeper, fetchesIssued, settled, outOfOrder,
          suspended, active>>

(* What no call writes: the upstream, and the other call's locals. *)
shared == <<sleeper, suspended, active>>

(* The variables of the request handler and of the fetches in flight. *)
serverVars == <<request, response, shared, settled, outOfOrder>>

----------------------------------------------------------------------------
(* Bounds of the enumerated inputs. *)

MaxRoster == 2

MaxSlots == 2

----------------------------------------------------------------------------
(* Generic helpers. *)

Range(s) == {s[i] : i \in 1..Len(s)}

RECURSIVE Flatten(_)
Flatten(ss) ==
    IF ss = <<>> THEN <<>> ELSE Head(ss) \o Flatten(Tail(ss))

Front(s) == SubSeq(s, 1, Len(s) - 1)

Last(s) == s[Len(s)]

----------------------------------------------------------------------------
(* Upstream data: the players/nfl map and the per-player projection        *)
(* responses.  undefined and null are the string "undefined"; a            *)
(* fantasy_positions value is [isNull, items].                             *)

Undefined == "undefined"

NullList == [isNull |-> TRUE, items |-> <<>>]

List(items) == [isNull |-> FALSE, items |-> items]

SleeperPlayer(position, fantasy_positions, status) ==
    [position |-> position, fantasy_positions |-> fantasy_positions,
     status |-> status]

players ==
    [id \in {"QB1", "QB2", "QB3", "RB1", "RB2", "RB3", "RW1", "WR1", "WR2",
             "WR3", "K1", "K2", "TE0", "REJ", "NOST", "NOPT", "STR", "NEG",
             "LO", "HI"} |->
        CASE id = "QB1" -> SleeperPlayer("QB", NullList, "Active")
          [] id = "QB2" -> SleeperPlayer("QB", NullList, "Inactive")
          [] id = "RB1" -> SleeperPlayer("RB", List(<<"RB">>), "Active")
          [] id = "RB2" -> SleeperPlayer("RB", List(<<"RB">>), "Active")
          [] id = "RB3" -> SleeperPlayer("RB", List(<<"RB">>), "Active")
          [] id = "RW1" -> SleeperPlayer("RB", List(<<"RB", "WR">>), "Active")
          [] id = "WR1" -> SleeperPlayer("WR", List(<<"WR">>), "Active")
          [] id = "WR2" -> SleeperPlayer("WR", List(<<"WR">>), "Active")
          [] id = "WR3" -> SleeperPlayer("WR", List(<<"WR">>), Undefined)
          [] id = "K1"  -> SleeperPlayer("K", List(<<"K">>), "Active")
          [] id = "TE0" -> SleeperPlayer("TE", List(<<>>), "Active")
          [] id = "QB3" -> SleeperPlayer("QB", NullList, "Active")
          [] id = "K2"  -> SleeperPlayer("K", List(<<"K">>), "Active")
          [] OTHER      -> SleeperPlayer("RB", List(<<"RB">>), "Active")]

HasRecord(playerId) == playerId \in DOMAIN players

(* A JavaScript value that is a number, or a truthy value of another type   *)
(* (a string such as "12.5"), which has no toFixed and makes arithmetic NaN. *)
Num(n) == [isNumber |-> TRUE, value |-> n]

NotANumber == [isNumber |-> FALSE, value |-> 0]

(* The outcome of the projection fetch for one player: the fetch rejected,  *)
(* or a response with ok, whether data.stats and data.stats.pts_ppr are     *)
(* present, and the value of pts_ppr.                                       *)
Response(rejected, ok, has_stats, has_pts_ppr, pts_ppr) ==
    [rejected |-> rejected, ok |-> ok, has_stats |-> has_stats,
     has_pts_ppr |-> has_pts_ppr, pts_ppr |-> pts_ppr]

Projection(ok, has_pts_ppr, pts_ppr) ==
    Response(FALSE, ok, has_pts_ppr, has_pts_ppr, Num(pts_ppr))

ProjectionResponse(playerId) ==
    CASE playerId = "QB1" -> Projection(TRUE, TRUE, 20000)
      [] playerId = "QB2" -> Projection(TRUE, TRUE, 30000)
      [] playerId = "RB1" -> Projection(TRUE, TRUE, 15000)
      [] playerId = "RB2" -> Projection(TRUE, TRUE, 12000)
      [] playerId = "RB3" -> Projection(TRUE, TRUE, 8000)
      [] playerId = "RW1" -> Projection(TRUE, TRUE, 12340)
      [] playerId = "WR1" -> Projection(TRUE, TRUE, 14000)
      [] playerId = "WR2" -> Projection(TRUE, TRUE, 15000)
      [] playerId = "WR3" -> Projection(TRUE, TRUE, 18000)
      [] playerId = "K1"  -> Projection(FALSE, FALSE, 0)
      [] playerId = "TE0" -> Projection(TRUE, TRUE, 9000)
      [] playerId = "QB3" -> Projection(TRUE, TRUE, 10000)
      [] playerId = "K2"  -> Projection(TRUE, TRUE, 8000)
      [] playerId = "REJ" -> Response(TRUE, FALSE, FALSE, FALSE, Num(0))
      [] playerId = "NOST" -> Response(FALSE, TRUE, FALSE, FALSE, Num(0))
      [] playerId = "NOPT" -> Response(FALSE, TRUE, TRUE, FALSE, Num(0))
      [] playerId = "STR" -> Response(FALSE, TRUE, TRUE, TRUE, NotANumber)
      [] playerId = "NEG" -> Projection(TRUE, TRUE, -2500)
      [] playerId = "LO"  -> Projection(TRUE, TRUE, 10001)
      [] playerId = "HI"  -> Projection(TRUE, TRUE, 10004)
      [] OTHER            -> Projection(TRUE, TRUE, 40000)

(* The ids a bounded roster is drawn from; "GHOST" has no players record.  *)
RosterIds == {"QB1", "QB2", "RB1", "RW1", "WR2", "WR3", "K1", "TE0", "GHOST"}

SlotNames == {"QB", "RB", "TE", "FLEX", "SUPER_FLEX", "BN"}

(* The ids and slot names of the calls that exercise the projection         *)
(* endpoint's outcomes: a rejected fetch (REJ), a response that is not OK   *)
(* (K1), without stats (NOST), without pts_ppr (NOPT), with a pts_ppr that  *)
(* is no number (STR), negative (NEG), and two values a hundredth of a      *)
(* point does not tell apart (LO 10.001, HI 10.004); and a kicker          *)
(* projected at 8 (K2).                                                     *)
UpstreamIds ==
    {"RB1", "K1", "K2", "REJ", "NOST", "NOPT", "STR", "NEG", "LO", "HI"}

UpstreamSlotNames == {"RB", "FLEX", "SUPER_FLEX", "BN", "REC_FLEX"}

----------------------------------------------------------------------------
(* Number formatting. *)

RoundDiv(x, d) ==
    IF x >= 0 THEN (2 * x + d) \div (2 * d) ELSE -((2 * (-x) + d) \div (2 * d))

ToFixed2(x) == RoundDiv(x, 10)

ToFixed1(x) == RoundDiv(x, 10)

----------------------------------------------------------------------------
(* execute, lines 70-108: projections and the player pool. *)

(* Truthiness of a value: a number other than 0, or a truthy non-number.   *)
Truthy(v) == ~v.isNumber \/ v.value # 0

(* data.stats?.pts_ppr || 0 for an OK response, 0 for a response that is    *)
(* not OK and for a fetch that rejected (the catch of line 80).             *)
FetchProjection(playerId) ==
    LET r == ProjectionResponse(playerId) IN
    IF r.rejected THEN Num(0)
    ELSE IF r.ok
         THEN (IF r.has_stats /\ r.has_pts_ppr /\ Truthy(r.pts_ppr)
               THEN r.pts_ppr ELSE Num(0))
         ELSE Num(0)

ProjectionMap(playerIds) ==
    [id \in Range(playerIds) |-> FetchProjection(id)]

(* null: the value of bestPlayer before a choice, and of a pool entry      *)
(* whose id has no players record.                                         *)
NoPlayer ==
    [playerId |-> "", position |-> "", status |-> "", projectedPoints |-> 0,
     eligiblePositions |-> <<>>]

(* player.fantasy_positions || [player.position] *)
EligiblePositions(player) ==
    IF player.fantasy_positions.isNull
    THEN <<player.position>>
    ELSE player.fantasy_positions.items

PoolEntry(playerId, projections) ==
    IF ~HasRecord(playerId) THEN NoPlayer
    ELSE LET player == players[playerId] IN
         [playerId |-> playerId,
          position |-> player.position,
          status |-> player.status,
          projectedPoints |-> ToFixed2(projections[playerId].value),
          eligiblePositions |-> EligiblePositions(player)]

(* line 105: projectedPoints.toFixed is not a function when the value is   *)
(* no number; the entry of an id without record returns before (line 95).  *)
PoolThrows(playerIds, projections) ==
    \E i \in 1..Len(playerIds) :
        HasRecord(playerIds[i]) /\ ~projections[playerIds[i]].isNumber

IsActive_AnyStatus(p) == TRUE

IsActive(p) == p.status = "Active"

BuildPlayerPool(playerIds, projections) ==
    LET mapped == [i \in 1..Len(playerIds) |-> PoolEntry(playerIds[i], projections)]
        present == SelectSeq(mapped, LAMBDA p : p # NoPlayer)
    IN SelectSeq(present, IsActive)

----------------------------------------------------------------------------
(* groupPlayersByPosition, lines 174-190. *)

(* The (position, player) pairs in the order of the nested forEach. *)
PositionPairs(pool) ==
    Flatten([i \in 1..Len(pool) |->
        [j \in 1..Len(pool[i].eligiblePositions) |->
            [position |-> pool[i].eligiblePositions[j], player |-> pool[i]]]])

(* The keys of grouped in insertion order. *)
RECURSIVE KeyOrder(_, _)
KeyOrder(pairs, seen) ==
    IF pairs = <<>> THEN seen
    ELSE KeyOrder(Tail(pairs),
                  IF Head(pairs).position \in Range(seen) THEN seen
                  ELSE Append(seen, Head(pairs).position))

GroupOf(pairs, position) ==
    LET mine == SelectSeq(pairs, LAMBDA q : q.position = position)
    IN [i \in 1..Len(mine) |-> mine[i].player]

(* Array.prototype.sort with (a, b) => b.projectedPoints - a.projectedPoints: *)
(* a stable sort, descending.  x is placed after every element whose       *)
(* points are at least its own.                                            *)
InsertDesc_Ascending(sorted, x) ==
    LET before == SelectSeq(sorted, LAMBDA y : y.projectedPoints <= x.projectedPoints)
        after == SelectSeq(sorted, LAMBDA y : y.projectedPoints > x.projectedPoints)
    IN before \o <<x>> \o after

InsertDesc(sorted, x) ==
    LET before == SelectSeq(sorted, LAMBDA y : y.projectedPoints >= x.projectedPoints)
        after == SelectSeq(sorted, LAMBDA y : y.projectedPoints < x.projectedPoints)
    IN before \o <<x>> \o after

RECURSIVE SortByProjectedPoints(_)
SortByProjectedPoints(group) ==
    IF group = <<>> THEN <<>>
    ELSE InsertDesc(SortByProjectedPoints(Front(group)), Last(group))

groupPlayersByPosition(pool) ==
    LET pairs == PositionPairs(pool)
        keys == KeyOrder(pairs, <<>>)
    IN [keys |-> keys,
        groups |-> [position \in Range(keys) |->
                       SortByProjectedPoints(GroupOf(pairs, position))]]

----------------------------------------------------------------------------
(* optimizeLineup, lines 192-244: one iteration of the slot loop. *)

NewUsedPlayers_Stale == usedPlayers

NewUsedPlayers == {}

flexEligible_NoWR == <<"RB", "TE">>

flexEligible == <<"RB", "WR", "TE">>

HasGroup(grouped, position) == position \in Range(grouped.keys)

(* The players visited by the nested forEach over the groups named by      *)
(* positions, in visiting order; a missing group is skipped.               *)
Visited(grouped, positions) ==
    Flatten([i \in 1..Len(positions) |->
        IF HasGroup(grouped, positions[i])
        THEN grouped.groups[positions[i]] ELSE <<>>])

Unused_Anyone(player, used) == TRUE

Unused(player, used) == player.playerId \notin used

(* lines 207-212 and 218-223: keep the first player strictly better than   *)
(* the best so far.                                                        *)
RECURSIVE ScanBest(_, _, _)
ScanBest(visited, used, bestPlayer) ==
    IF visited = <<>> THEN bestPlayer
    ELSE LET player == Head(visited) IN
         ScanBest(Tail(visited), used,
                  IF Unused(player, used)
                     /\ (bestPlayer = NoPlayer
                         \/ player.projectedPoints > bestPlayer.projectedPoints)
                  THEN player ELSE bestPlayer)

(* lines 227-231: Array.prototype.find, undefined when nothing matches. *)
FindUnused_Last(group, used) ==
    LET hits == SelectSeq(group, LAMBDA player : Unused(player, used))
    IN IF hits = <<>> THEN NoPlayer ELSE hits[Len(hits)]

FindUnused(group, used) ==
    LET hits == SelectSeq(group, LAMBDA player : Unused(player, used))
    IN IF hits = <<>> THEN NoPlayer ELSE Head(hits)

BestFlex(grouped, used) ==
    ScanBest(Visited(grouped, flexEligible), used, NoPlayer)

BestSuperFlex(grouped, used) ==
    ScanBest(Visited(grouped, grouped.keys), used, NoPlayer)

BestFixed(grouped, position, used) ==
    IF HasGroup(grouped, position)
    THEN FindUnused(grouped.groups[position], used)
    ELSE NoPlayer

LineupEntry(bestPlayer, position) ==
    [playerId |-> bestPlayer.playerId,
     position |-> bestPlayer.position,
     status |-> bestPlayer.status,
     projectedPoints |-> bestPlayer.projectedPoints,
     eligiblePositions |-> bestPlayer.eligiblePositions,
     lineupPosition |-> position]

(* lines 234-240 *)
Push_NoCommit(bestPlayer, position) ==
    IF bestPlayer # NoPlayer
    THEN /\ lineup' = Append(lineup, LineupEntry(bestPlayer, position))
         /\ usedPlayers' = usedPlayers
    ELSE UNCHANGED <<lineup, usedPlayers>>

Push(bestPlayer, position) ==
    IF bestPlayer # NoPlayer
    THEN /\ lineup' = Append(lineup, LineupEntry(bestPlayer, position))
         /\ usedPlayers' = usedPlayers \cup {bestPlayer.playerId}
    ELSE UNCHANGED <<lineup, usedPlayers>>

(* lines 192-244: the whole pass over the slots, from slot i on, with the  *)
(* lineup and the used ids so far.                                         *)
RECURSIVE OptimizeFrom(_, _, _, _, _)
OptimizeFrom(grouped, slots, i, sofar, used) ==
    IF i > Len(slots) THEN sofar
    ELSE LET position == slots[i]
             bestPlayer ==
                 IF position = "BN" THEN NoPlayer
                 ELSE IF position = "FLEX" THEN BestFlex(grouped, used)
                 ELSE IF position = "SUPER_FLEX" THEN BestSuperFlex(grouped, used)
                 ELSE BestFixed(grouped, position, used)
         IN IF bestPlayer = NoPlayer
            THEN OptimizeFrom(grouped, slots, i + 1, sofar, used)
            ELSE OptimizeFrom(grouped, slots, i + 1,
                              Append(sofar, LineupEntry(bestPlayer, position)),
                              used \cup {bestPlayer.playerId})

optimizeLineup(grouped, slots) == OptimizeFrom(grouped, slots, 1, <<>>, {})

(* lines 122-123 *)
RECURSIVE SumProjected_Rounded(_)
SumProjected_Rounded(entries) ==
    IF entries = <<>> THEN 0
    ELSE 10 * ToFixed1(Head(entries).projectedPoints)
         + SumProjected_Rounded(Tail(entries))

RECURSIVE SumProjected(_)
SumProjected(entries) ==
    IF entries = <<>> THEN 0
    ELSE Head(entries).projectedPoints + SumProjected(Tail(entries))

(* lines 206 and 227: a group is read only behind if (playersByPosition[..]), *)
(* so a position without a group raises nothing.                             *)
SlotThrows_Unguarded(grouped, positions) ==
    \E i \in 1..Len(positions) : ~HasGroup(grouped, positions[i])

SlotThrows(grouped, positions) == FALSE

(* lines 118-120: sum + (playerProjections.get(playerId) || 0).  Every      *)
(* value that reaches this line is a number: an id whose value is not has   *)
(* a players record, and line 105 has thrown for it.                        *)
RECURSIVE CurrentProjection(_, _)
CurrentProjection(starters, projections) ==
    IF starters = <<>> THEN 0
    ELSE (IF Head(starters) \in DOMAIN projections
          THEN projections[Head(starters)].value ELSE 0)
         + CurrentProjection(Tail(starters), projections)

----------------------------------------------------------------------------
(* findLineupChanges, lines 246-276. *)

(* line 251: optimizedLineup[index]?.playerId, index counted from 0 *)
OptimizedIdAt_OffByOne(optimizedLineup, index) ==
    IF index + 2 <= Len(optimizedLineup)
    THEN optimizedLineup[index + 2].playerId ELSE Undefined

OptimizedIdAt(optimizedLineup, index) ==
    IF index + 1 <= Len(optimizedLineup)
    THEN optimizedLineup[index + 1].playerId ELSE Undefined

(* line 257: if (suggestedPlayer) *)
HasSuggested(optimizedLineup, index) == index + 1 <= Len(optimizedLineup)

(* lines 265-267: Object.values(player).reduce((s, p) => s + (p || 0), 0).  *)
(* From the first value that is a non-empty string or an array with items   *)
(* on, + concatenates, and the sum is a string with letters in it: no       *)
(* number.  Points, when it is a number.                                    *)
ObjectValuesSum(player) ==
    IF \/ player.position \notin {"", Undefined}
       \/ player.status \notin {"", Undefined}
       \/ player.fantasy_positions.items # <<>>
    THEN NotANumber
    ELSE Num(0)

(* The result of toFixed(1) on NaN. *)
NaN == [isNumber |-> FALSE, value |-> 0]

(* lines 264-268: (suggested.projectedPoints - (currentPlayer ? sum : 0))   *)
(* .toFixed(1), in tenths of a point.                                       *)
ProjectedPointsGain(suggestedPlayer, currentPlayerId) ==
    LET sum == IF HasRecord(currentPlayerId)
               THEN ObjectValuesSum(players[currentPlayerId])
               ELSE Num(0)
    IN IF sum.isNumber
       THEN Num(ToFixed1(suggestedPlayer.projectedPoints - 100 * sum.value))
       ELSE NaN

(* lines 258-270 *)
Change(index, currentPlayerId, suggestedPlayer) ==
    [position |-> index,
     current |-> currentPlayerId,
     suggested |-> suggestedPlayer.playerId,
     projectedPointsGain |-> ProjectedPointsGain(suggestedPlayer, currentPlayerId)]

findLineupChanges(starters, optimizedLineup) ==
    Flatten([i \in 1..Len(starters) |->
        IF /\ starters[i] # OptimizedIdAt(optimizedLineup, i - 1)
           /\ HasSuggested(optimizedLineup, i - 1)
        THEN <<Change(i - 1, starters[i], optimizedLineup[i])>>
        ELSE <<>>])

(* lines 153-158.  optimal is in hundredths of a point, current in         *)
(* thousandths; projectedImprovement is (optimal - current).toFixed(1), in *)
(* tenths, and isOptimal is Math.abs(optimal - current) < 0.1.             *)
Abs(x) == IF x >= 0 THEN x ELSE -x

Analysis(optimal, current) ==
    [projectedImprovement |-> RoundDiv(10 * optimal - current, 100),
     isOptimal |-> Abs(10 * optimal - current) < 100]

NoAnalysis == [projectedImprovement |-> 0, isOptimal |-> FALSE]

(* The CallTool request params (index, line 345) and the handler's         *)
(* resolution: nothing yet, the tool's result or the text of the catch.    *)
Request(name, league) == [name |-> name, league |-> league]

NoResponse == [kind |-> "none", content |-> <<>>]

(* config.leagues (config.ts lines 10-19) *)
ConfiguredLeagues == {"ROAD_TO_GLORY", "DYNASTY"}

(* The outcome of the four core fetches of lines 35-40 -- each "ok",       *)
(* "not_ok" or "rejected" -- and whether a roster matches the user.        *)
Core(league, rosters, users, playersNfl, rosterFound) ==
    [league |-> league, rosters |-> rosters, users |-> users,
     players |-> playersNfl, rosterFound |-> rosterFound]

(* No other call is in progress. *)
NoCall == [pc |-> "none"]

CoreAllOk == Core("ok", "ok", "ok", "ok", TRUE)

(* What Sleeper answers for one league: the core outcome, the user's       *)
(* roster and league.roster_positions.                                     *)
Upstream(core, r, slots) ==
    [core |-> core, roster |-> r, rosterPositions |-> slots]

----------------------------------------------------------------------------
(* The inputs of one call. *)

SeqsUpTo(S, n) == UNION {[1..k -> S] : k \in 0..n}

Distinct(s) == \A i, j \in 1..Len(s) : i # j => s[i] # s[j]

ScenarioA_players == <<"QB1", "RB1", "RB2", "WR1", "RB3">>

ScenarioA_slots == <<"QB", "RB", "RB", "FLEX", "BN">>

IsScenarioA ==
    roster.players = ScenarioA_players /\ rosterPositions = ScenarioA_slots

(* Scenario D; its quarterback projected at 10 is "QB3" here. *)
ScenarioD_players == <<"QB3", "RB1", "QB1">>

ScenarioD_slots == <<"QB", "RB">>

ScenarioD_starters == <<"QB3", "RB1">>

IsScenarioD ==
    /\ roster.players = ScenarioD_players
    /\ rosterPositions = ScenarioD_slots
    /\ currentStarters = ScenarioD_starters

Inputs ==
    \/ /\ roster \in {[players |-> s] :
                        s \in {t \in SeqsUpTo(RosterIds, MaxRoster) : Distinct(t)}}
       /\ rosterPositions \in SeqsUpTo(SlotNames, MaxSlots)
    \/ /\ roster = [players |-> ScenarioA_players]
       /\ rosterPositions = ScenarioA_slots
    \/ /\ roster = [players |-> ScenarioD_players]
       /\ rosterPositions = ScenarioD_slots

InputsUpstream ==
    /\ roster \in {[players |-> s] :
                     s \in {t \in SeqsUpTo(UpstreamIds, MaxRoster) : Distinct(t)}}
    /\ rosterPositions \in SeqsUpTo(UpstreamSlotNames, MaxSlots)

Constructed ==
    /\ pc = "projections"
    /\ playerProjections = <<>>
    /\ playerPool = <<>>
    /\ playersByPosition = [keys |-> <<>>, groups |-> <<>>]
    /\ slotIndex = 1
    /\ usedPlayers = {}
    /\ lineup = <<>>
    /\ optimalProjection = 0
    /\ totalProjected = 0
    /\ results = <<>>
    /\ currentStarters = <<>>
    /\ currentProjection = 0
    /\ changes = <<>>
    /\ failure = ""
    /\ analysis = NoAnalysis
    /\ request = Request("optimize_lineup", Undefined)
    /\ response = NoResponse
    /\ sleeper = [league \in ConfiguredLeagues |->
                     Upstream(CoreAllOk, roster, rosterPositions)]
    /\ fetchesIssued = {}
    /\ settled = <<>>
    /\ outOfOrder = {}
    /\ suspended = NoCall
    /\ active = 1

Init == Inputs /\ Constructed

InitUpstream == InputsUpstream /\ Constructed

(* myRoster.starters: one roster player for each slot that is not BN, as   *)
(* far as the roster goes.                                                 *)
StartersOf(r, slots) ==
    LET starting == Len(SelectSeq(slots, LAMBDA p : p # "BN"))
        n == IF Len(r.players) <= starting THEN Len(r.players) ELSE starting
    IN {s \in [1..n -> Range(r.players)] : Distinct(s)}

----------------------------------------------------------------------------
(* execute, after myRoster and league.roster_positions are known: Init and *)
(* InitUpstream are the states in which lines 35-67 have completed.        *)

(* lines 169-171: the catch of execute *)
Throw(message) ==
    /\ pc' = "failed"
    /\ failure' = message

(* lines 70-89 *)
FetchProjections ==
    /\ pc = "projections"
    /\ fetchesIssued' = Range(roster.players)
    /\ playerProjections' = ProjectionMap(roster.players)
    /\ pc' = "pool"
    /\ UNCHANGED <<serverVars, roster, rosterPositions, playerPool, playersByPosition,
                   slotIndex, usedPlayers, lineup, optimalProjection,
                   totalProjected, results, currentStarters,
                   currentProjection, changes, failure, analysis>>

(* lines 92-108 *)
CreatePlayerPool ==
    /\ pc = "pool"
    /\ IF PoolThrows(roster.players, playerProjections)
       THEN /\ Throw("Failed to optimize lineup: projectedPoints.toFixed is not a function")
            /\ UNCHANGED playerPool
       ELSE /\ playerPool' = BuildPlayerPool(roster.players, playerProjections)
            /\ pc' = "group"
            /\ UNCHANGED failure
    /\ UNCHANGED <<serverVars, fetchesIssued, roster, rosterPositions, playerProjections, playersByPosition,
                   slotIndex, usedPlayers, lineup, optimalProjection,
                   totalProjected, results, currentStarters,
                   currentProjection, changes, analysis>>

(* lines 177-187: each group is an array of its own (line 179) and the sort *)
(* of line 186 orders that array; the pool array keeps its order.           *)
PoolAfterGrouping_SortedInPlace(pool) == SortByProjectedPoints(pool)

PoolAfterGrouping(pool) == pool

(* line 111, and the entry of optimizeLineup (lines 193-194) *)
GroupPlayers ==
    /\ pc = "group"
    /\ playersByPosition' = groupPlayersByPosition(playerPool)
    /\ playerPool' = PoolAfterGrouping(playerPool)
    /\ lineup' = <<>>
    /\ usedPlayers' = NewUsedPlayers
    /\ slotIndex' = 1
    /\ pc' = "optimize"
    /\ UNCHANGED <<serverVars, fetchesIssued, roster, rosterPositions, playerProjections,
                   optimalProjection, totalProjected, results,
                   currentStarters, currentProjection, changes, failure, analysis>>

AtSlot == pc = "optimize" /\ slotIndex <= Len(rosterPositions)

NextSlot ==
    /\ slotIndex' = slotIndex + 1
    /\ UNCHANGED <<serverVars, fetchesIssued, roster, rosterPositions, pc, playerProjections, playerPool,
                   playersByPosition, optimalProjection, totalProjected, results,
                   currentStarters, currentProjection, changes, failure, analysis>>

(* A slot whose group access throws ends the call in the catch of execute. *)
SlotFails ==
    /\ Throw("Failed to optimize lineup: Cannot read properties of undefined")
    /\ UNCHANGED <<serverVars, fetchesIssued, roster, rosterPositions, playerProjections, playerPool,
                   playersByPosition, slotIndex, usedPlayers, lineup,
                   optimalProjection, totalProjected, results,
                   currentStarters, currentProjection, changes, analysis>>

(* line 198 *)
SkipBench ==
    /\ AtSlot
    /\ rosterPositions[slotIndex] = "BN"
    /\ UNCHANGED <<lineup, usedPlayers>>
    /\ NextSlot

(* lines 202-214, 234-240 *)
FillFlex ==
    /\ AtSlot
    /\ rosterPositions[slotIndex] = "FLEX"
    /\ IF SlotThrows(playersByPosition, flexEligible)
       THEN SlotFails
       ELSE /\ Push(BestFlex(playersByPosition, usedPlayers), "FLEX")
            /\ NextSlot

(* lines 215-224, 234-240 *)
FillSuperFlex ==
    /\ AtSlot
    /\ rosterPositions[slotIndex] = "SUPER_FLEX"
    /\ Push(BestSuperFlex(playersByPosition, usedPlayers), "SUPER_FLEX")
    /\ NextSlot

(* lines 225-232, 234-240 *)
FillFixed ==
    /\ AtSlot
    /\ rosterPositions[slotIndex] \notin {"BN", "FLEX", "SUPER_FLEX"}
    /\ IF SlotThrows(playersByPosition, <<rosterPositions[slotIndex]>>)
       THEN SlotFails
       ELSE /\ Push(BestFixed(playersByPosition, rosterPositions[slotIndex],
                              usedPlayers),
                    rosterPositions[slotIndex])
            /\ NextSlot

(* line 243, lines 115-123 and 150; a second call reads the same starters *)
ComputeTotals ==
    /\ pc = "optimize"
    /\ slotIndex > Len(rosterPositions)
    /\ \E starters \in StartersOf(roster, rosterPositions) :
        /\ results # <<>> => starters = currentStarters
        /\ currentStarters' = starters
        /\ currentProjection' = CurrentProjection(starters, playerProjections)
    /\ optimalProjection' = SumProjected(lineup)
    /\ totalProjected' = ToFixed1(SumProjected(lineup))
    /\ pc' = "changes"
    /\ UNCHANGED <<serverVars, fetchesIssued, roster, rosterPositions, playerProjections, playerPool,
                   playersByPosition, slotIndex, usedPlayers, lineup, results,
                   changes, failure, analysis>>

(* lines 126-168: the change list and the return of the result *)
FindLineupChanges ==
    /\ pc = "changes"
    /\ changes' = findLineupChanges(currentStarters, lineup)
    /\ analysis' = Analysis(optimalProjection, currentProjection)
    /\ results' = Append(results, lineup)
    /\ pc' = "done"
    /\ UNCHANGED <<serverVars, fetchesIssued, roster, rosterPositions, playerProjections, playerPool,
                   playersByPosition, slotIndex, usedPlayers, lineup,
                   optimalProjection, totalProjected, currentStarters,
                   currentProjection, failure>>

Next ==
    \/ FetchProjections
    \/ CreatePlayerPool
    \/ GroupPlayers
    \/ SkipBench
    \/ FillFlex
    \/ FillSuperFlex
    \/ FillFixed
    \/ ComputeTotals
    \/ FindLineupChanges

Spec == Init /\ [][Next]_vars

(* The calls whose projection responses are missing, malformed, negative    *)
(* or a thousandth apart, and whose slot list may name an unknown slot.     *)
SpecUpstream == InitUpstream /\ [][Next]_vars

(* A second call of execute with the same upstream data: the working state *)
(* of the first call is left as it is; each step of the second call        *)
(* allocates its own (lines 87, 92, 175, 193, 194).                        *)
CallAgain ==
    /\ pc = "done"
    /\ Len(results) = 1
    /\ pc' = "projections"
    /\ UNCHANGED <<serverVars, fetchesIssued, roster, rosterPositions, playerProjections, playerPool,
                   playersByPosition, slotIndex, usedPlayers, lineup,
                   optimalProjection, totalProjected, results,
                   currentStarters, currentProjection, changes, failure, analysis>>

NextTwice == Next \/ CallAgain

SpecTwice == Init /\ [][NextTwice]_vars

----------------------------------------------------------------------------
(* The CallTool handler of the server and the whole of execute, with the   *)
(* fetches of each Promise.all settling one by one in any order.           *)

(* The case labels of the handler's switch (index, lines 349-372). *)
KnownTools ==
    {"get_league_info", "get_my_roster", "get_my_matchup",
     "get_available_players", "get_player_projections",
     "get_matchup_projections", "optimize_lineup", "get_trending_players",
     "get_historical_scores", "get_player_news", "get_league_transactions",
     "get_nfl_state"}

(* config.defaultLeague, with no DEFAULT_LEAGUE in the environment *)
defaultLeague == "ROAD_TO_GLORY"

(* config.ts lines 27-30: the key of the league's configuration, or        *)
(* undefined.                                                              *)
getLeagueConfig(leagueName) ==
    LET league == IF leagueName \in {Undefined, ""} THEN defaultLeague
                  ELSE leagueName
    IN IF league \in ConfiguredLeagues THEN league ELSE Undefined

(* lines 169-171: the message of the error the catch of execute throws *)
Caught(message) == "Failed to optimize lineup: " \o message

(* lines 35-40: the four fetches of the first Promise.all, in array order *)
CoreFetches == <<"league", "rosters", "users", "players">>

(* line 42 *)
CoreOk_IgnorePlayers(core) ==
    core.league = "ok" /\ core.rosters = "ok" /\ core.users = "ok"

CoreOk(core) ==
    /\ core.league = "ok"
    /\ core.rosters = "ok"
    /\ core.users = "ok"
    /\ core.players = "ok"

(* Promise.all rejects as soon as one of its fetches has rejected, and     *)
(* resolves once every one has settled; the callback of lines 70-84        *)
(* catches (line 80), so a projection fetch that rejects settles its       *)
(* promise too.                                                            *)
AnyRejected(core, done) ==
    \E i \in 1..Len(done) : core[done[i]] = "rejected"

AllSettled_OnlyFulfilled(issued, done) ==
    /\ issued \subseteq Range(done)
    /\ \A f \in issued : ~ProjectionResponse(f).rejected

AllSettled(issued, done) == issued \subseteq Range(done)

(* lines 72-79: the entry the callback of playerId resolves with is built  *)
(* from its own playerId and its own response, whenever it settles.        *)
ProjectionEntry_ByCompletion(playerIds, order, i) ==
    [playerId |-> playerIds[i], projectedPoints |-> FetchProjection(order[i])]

ProjectionEntry(playerIds, order, i) ==
    [playerId |-> playerIds[i], projectedPoints |-> FetchProjection(playerIds[i])]

(* line 86: the array Promise.all resolves with, in the order of the       *)
(* promises.                                                               *)
PromiseAll(playerIds, order) ==
    [i \in 1..Len(playerIds) |-> ProjectionEntry(playerIds, order, i)]

(* lines 87-89: Map.set for each entry, a later entry replacing an earlier *)
(* one of the same id.                                                     *)
MapOf(projections) ==
    [id \in {projections[i].playerId : i \in 1..Len(projections)} |->
        LET last == CHOOSE i \in 1..Len(projections) :
                        /\ projections[i].playerId = id
                        /\ \A j \in 1..Len(projections) :
                              projections[j].playerId = id => j <= i
        IN projections[last].projectedPoints]

(* The position of a fetch in the array given to Promise.all. *)
IssueIndex(order, f) == CHOOSE i \in 1..Len(order) : order[i] = f

(* index lines 376-386: the catch of the handler *)
CatchResult_Rethrow(message) == [kind |-> "rejected", content |-> <<>>]

CatchResult(message) ==
    [kind |-> "error",
     content |-> <<[type |-> "text", text |-> "Error: " \o message]>>]

(* lines 161-168 *)
ToolResult == [kind |-> "result", content |-> <<[type |-> "text", text |-> "{...}"]>>]

(* The ids, slot names, request names and league arguments of the requests *)
(* handled.                                                                *)
ServerIds == {"RB1", "RW1", "WR2", "REJ"}

ServerSlotNames == {"RB", "FLEX", "SUPER_FLEX", "BN"}

RequestNames == {"optimize_lineup", "get_my_roster", "no_such_tool"}

RequestLeagues == {Undefined, "DYNASTY", "BOGUS"}

(* One core fetch at most goes wrong. *)
CoreOutcomes ==
    {CoreAllOk,
     Core("not_ok", "ok", "ok", "ok", TRUE),
     Core("ok", "not_ok", "ok", "ok", TRUE),
     Core("ok", "ok", "not_ok", "ok", TRUE),
     Core("ok", "ok", "ok", "not_ok", TRUE),
     Core("ok", "rejected", "ok", "ok", TRUE),
     Core("ok", "ok", "ok", "ok", FALSE)}

UpstreamInputs(ids, slotNames) ==
    \E core \in CoreOutcomes,
          r \in {[players |-> s] :
                   s \in {t \in SeqsUpTo(ids, MaxRoster) : Distinct(t)}},
          slots \in SeqsUpTo(slotNames, MaxSlots) :
          /\ core # CoreAllOk =>
                r = [players |-> <<"RB1">>] /\ slots = <<"RB">>
          /\ sleeper = [league \in ConfiguredLeagues |->
                          IF league = defaultLeague
                          THEN Upstream(core, r, slots)
                          ELSE Upstream(CoreAllOk, [players |-> ScenarioD_players],
                                        ScenarioD_slots)]

ServerInputs(ids, slotNames) ==
    /\ request \in {Request(name, league) :
                      name \in RequestNames, league \in RequestLeagues}
    /\ UpstreamInputs(ids, slotNames)

InputsServer == ServerInputs(ServerIds, ServerSlotNames)

(* The rosters of the runs checked for completion: a fetch that fulfils    *)
(* and one that rejects.                                                   *)
SettlingIds == {"RB1", "REJ"}

InputsSettling == ServerInputs(SettlingIds, ServerSlotNames)

(* The handler is entered: nothing fetched, nothing computed. *)
Entered ==
    /\ pc = "request"
    /\ roster = [players |-> <<>>]
    /\ rosterPositions = <<>>
    /\ playerProjections = <<>>
    /\ playerPool = <<>>
    /\ playersByPosition = [keys |-> <<>>, groups |-> <<>>]
    /\ slotIndex = 1
    /\ usedPlayers = {}
    /\ lineup = <<>>
    /\ optimalProjection = 0
    /\ totalProjected = 0
    /\ results = <<>>
    /\ currentStarters = <<>>
    /\ currentProjection = 0
    /\ changes = <<>>
    /\ failure = ""
    /\ analysis = NoAnalysis
    /\ response = NoResponse
    /\ fetchesIssued = {}
    /\ settled = <<>>
    /\ outOfOrder = {}

(* One request is handled. *)
Alone == suspended = NoCall /\ active = 1

InitServer == InputsServer /\ Entered /\ Alone

InitSettling == InputsSettling /\ Entered /\ Alone

(* What the steps of the handler before the pool is built leave alone. *)
callVars ==
    <<playerPool, playersByPosition, slotIndex, usedPlayers, lineup,
      optimalProjection, totalProjected, results, currentStarters,
      currentProjection, changes, analysis>>

(* index lines 344-375 and execute lines 23-40: the switch; for            *)
(* optimize_lineup the league configuration check and the issue of the     *)
(* four core fetches; for another tool its execute, which resolves or      *)
(* rejects.                                                                *)
HandleRequest ==
    /\ pc = "request"
    /\ IF request.name = "optimize_lineup"
       THEN IF getLeagueConfig(request.league) = Undefined
            THEN /\ Throw("League configuration not found for: " \o request.league)
                 /\ UNCHANGED fetchesIssued
            ELSE /\ fetchesIssued' = Range(CoreFetches)
                 /\ pc' = "core"
                 /\ UNCHANGED failure
       ELSE /\ IF request.name \in KnownTools
               THEN \E resolves \in BOOLEAN :
                       IF resolves
                       THEN pc' = "other_done" /\ UNCHANGED failure
                       ELSE Throw("Failed to get roster: fetch failed")
               ELSE Throw("Unknown tool: " \o request.name)
            /\ UNCHANGED fetchesIssued
    /\ UNCHANGED <<callVars, roster, rosterPositions, playerProjections,
                   request, response, shared, settled, outOfOrder>>

(* One of the fetches in flight settles. *)
SettleFetch ==
    /\ pc \in {"core", "fanout"}
    /\ \E f \in fetchesIssued \ Range(settled) :
          LET order == IF pc = "core" THEN CoreFetches ELSE roster.players IN
          /\ settled' = Append(settled, f)
          /\ outOfOrder' =
                IF \E g \in fetchesIssued \ Range(settled) :
                      IssueIndex(order, g) < IssueIndex(order, f)
                THEN outOfOrder \cup {pc} ELSE outOfOrder
    /\ UNCHANGED <<callVars, roster, rosterPositions, playerProjections, pc,
                   failure, request, response, shared, fetchesIssued>>

(* lines 35-84: the first Promise.all rejects or resolves; the checks of   *)
(* lines 42 and 62; the issue of the projection fetches.                   *)
CoreFetchesDone ==
    /\ pc = "core"
    /\ LET up == sleeper[getLeagueConfig(request.league)] IN
       /\ AnyRejected(up.core, settled) \/ AllSettled(fetchesIssued, settled)
       /\ IF AnyRejected(up.core, settled)
          THEN /\ Throw(Caught("fetch failed"))
               /\ UNCHANGED <<roster, rosterPositions, fetchesIssued, settled>>
          ELSE IF ~CoreOk(up.core)
          THEN /\ Throw(Caught("Failed to fetch lineup optimization data"))
               /\ UNCHANGED <<roster, rosterPositions, fetchesIssued, settled>>
          ELSE IF ~up.core.rosterFound
          THEN /\ Throw(Caught("Could not find roster for user: your_sleeper_username"))
               /\ UNCHANGED <<roster, rosterPositions, fetchesIssued, settled>>
          ELSE /\ roster' = up.roster
               /\ rosterPositions' = up.rosterPositions
               /\ fetchesIssued' = Range(up.roster.players)
               /\ settled' = <<>>
               /\ pc' = "fanout"
               /\ UNCHANGED failure
    /\ UNCHANGED <<callVars, playerProjections, request, response, shared,
                   outOfOrder>>

(* lines 86-89: the second Promise.all resolves *)
AwaitProjections ==
    /\ pc = "fanout"
    /\ AllSettled(fetchesIssued, settled)
    /\ playerProjections' = MapOf(PromiseAll(roster.players, settled))
    /\ settled' = <<>>
    /\ pc' = "pool"
    /\ UNCHANGED <<callVars, roster, rosterPositions, failure, request,
                   response, shared, fetchesIssued, outOfOrder>>

(* index lines 349-372: return await tool.execute(args), resolved *)
HandlerReturn ==
    /\ pc \in {"done", "other_done"}
    /\ response = NoResponse
    /\ response' = ToolResult
    /\ UNCHANGED <<callVars, roster, rosterPositions, playerProjections, pc,
                   failure, request, shared, fetchesIssued, settled,
                   outOfOrder>>

(* index lines 376-386: the catch *)
HandlerCatch ==
    /\ pc = "failed"
    /\ response = NoResponse
    /\ response' = CatchResult(failure)
    /\ UNCHANGED <<callVars, roster, rosterPositions, playerProjections, pc,
                   failure, request, shared, fetchesIssued, settled,
                   outOfOrder>>

NextServer ==
    \/ HandleRequest
    \/ SettleFetch
    \/ CoreFetchesDone
    \/ AwaitProjections
    \/ CreatePlayerPool
    \/ GroupPlayers
    \/ SkipBench
    \/ FillFlex
    \/ FillSuperFlex
    \/ FillFixed
    \/ ComputeTotals
    \/ FindLineupChanges
    \/ HandlerReturn
    \/ HandlerCatch

SpecServer == InitServer /\ [][NextServer]_vars

(* Every fetch settles at last and every step that can run does. *)
SpecServerFair ==
    InitSettling /\ [][NextServer]_vars /\ WF_vars(NextServer)

----------------------------------------------------------------------------
(* Two optimize_lineup requests on the one LineupOptimizerTool instance    *)
(* (index, line 308).  The instance has no field execute writes (lines     *)
(* 3-21); every value execute and optimizeLineup work on is a local of its *)
(* call.  One call runs at a time; the other is suspended at an await, not *)
(* yet started, or finished.                                               *)

(* The locals of the call that is running. *)
CallState ==
    [request |-> request, response |-> response, roster |-> roster,
     rosterPositions |-> rosterPositions, pc |-> pc,
     playerProjections |-> playerProjections, playerPool |-> playerPool,
     playersByPosition |-> playersByPosition, slotIndex |-> slotIndex,
     usedPlayers |-> usedPlayers, lineup |-> lineup,
     optimalProjection |-> optimalProjection,
     totalProjected |-> totalProjected, results |-> results,
     currentStarters |-> currentStarters,
     currentProjection |-> currentProjection, changes |-> changes,
     failure |-> failure, analysis |-> analysis,
     fetchesIssued |-> fetchesIssued, settled |-> settled,
     outOfOrder |-> outOfOrder]

(* The locals of a call whose request has arrived. *)
NewCall(req) ==
    [request |-> req, response |-> NoResponse, roster |-> [players |-> <<>>],
     rosterPositions |-> <<>>, pc |-> "request",
     playerProjections |-> <<>>, playerPool |-> <<>>,
     playersByPosition |-> [keys |-> <<>>, groups |-> <<>>], slotIndex |-> 1,
     usedPlayers |-> {}, lineup |-> <<>>, optimalProjection |-> 0,
     totalProjected |-> 0, results |-> <<>>, currentStarters |-> <<>>,
     currentProjection |-> 0, changes |-> <<>>, failure |-> "",
     analysis |-> NoAnalysis, fetchesIssued |-> {}, settled |-> <<>>,
     outOfOrder |-> {}]

(* What a call finds in its locals when it resumes: what it left there,    *)
(* whatever the other call did meanwhile.                                  *)
Resumed_SharedRoster(own, other) ==
    [own EXCEPT !.roster = other.roster,
                !.rosterPositions = other.rosterPositions]

Resumed(own, other) == own

(* lines 35, 46-49 and 86: the awaits of execute; a call also yields when  *)
(* it has not started and when it has returned.                            *)
Yields == pc \in {"request", "core", "fanout"} \/ response # NoResponse

(* The running call yields and the other call runs. *)
Switch ==
    /\ suspended # NoCall
    /\ suspended.response = NoResponse
    /\ Yields
    /\ LET call == Resumed(suspended, CallState) IN
       /\ request' = call.request
       /\ response' = call.response
       /\ roster' = call.roster
       /\ rosterPositions' = call.rosterPositions
       /\ pc' = call.pc
       /\ playerProjections' = call.playerProjections
       /\ playerPool' = call.playerPool
       /\ playersByPosition' = call.playersByPosition
       /\ slotIndex' = call.slotIndex
       /\ usedPlayers' = call.usedPlayers
       /\ lineup' = call.lineup
       /\ optimalProjection' = call.optimalProjection
       /\ totalProjected' = call.totalProjected
       /\ results' = call.results
       /\ currentStarters' = call.currentStarters
       /\ currentProjection' = call.currentProjection
       /\ changes' = call.changes
       /\ failure' = call.failure
       /\ analysis' = call.analysis
       /\ fetchesIssued' = call.fetchesIssued
       /\ settled' = call.settled
       /\ outOfOrder' = call.outOfOrder
    /\ suspended' = CallState
    /\ active' = 3 - active
    /\ UNCHANGED sleeper

(* The fetches of the Promise.all awaited settle, here in array order. *)
SettleAll ==
    /\ pc \in {"core", "fanout"}
    /\ fetchesIssued # {}
    /\ settled = <<>>
    /\ settled' = IF pc = "core" THEN CoreFetches ELSE roster.players
    /\ UNCHANGED <<callVars, roster, rosterPositions, playerProjections, pc,
                   failure, request, response, shared, fetchesIssued,
                   outOfOrder>>

ConcurrentIds == {"RB1", "RW1"}

ConcurrentLeagues == {Undefined, "DYNASTY"}

InitConcurrent ==
    /\ UpstreamInputs(ConcurrentIds, ServerSlotNames)
    /\ \E first \in ConcurrentLeagues, second \in ConcurrentLeagues :
          /\ request = Request("optimize_lineup", first)
          /\ suspended = NewCall(Request("optimize_lineup", second))
    /\ active = 1
    /\ Entered

NextConcurrent ==
    \/ HandleRequest
    \/ SettleAll
    \/ CoreFetchesDone
    \/ AwaitProjections
    \/ CreatePlayerPool
    \/ GroupPlayers
    \/ SkipBench
    \/ FillFlex
    \/ FillSuperFlex
    \/ FillFixed
    \/ ComputeTotals
    \/ FindLineupChanges
    \/ HandlerReturn
    \/ HandlerCatch
    \/ Switch

SpecConcurrent == InitConcurrent /\ [][NextConcurrent]_vars

----------------------------------------------------------------------------
(* Vocabulary of the properties. *)

NonBench(slots) == SelectSeq(slots, LAMBDA position : position # "BN")

LineupIds == {lineup[i].playerId : i \in 1..Len(lineup)}

IsFixedSlot(position) == position \notin {"BN", "FLEX", "SUPER_FLEX"}

(* One iteration of the slot loop runs from this state to the next. *)
SlotStep(position) ==
    AtSlot /\ rosterPositions[slotIndex] = position /\ slotIndex' = slotIndex + 1

(* The iteration pushed exactly one entry, for the slot it was about. *)
PushedOne ==
    /\ Len(lineup') = Len(lineup) + 1
    /\ SubSeq(lineup', 1, Len(lineup)) = lineup
    /\ lineup'[Len(lineup')].lineupPosition = rosterPositions[slotIndex]

(* The pool players not used so far whose eligible positions meet accepted. *)
Candidates(accepted) ==
    {p \in Range(playerPool) :
        p.playerId \notin usedPlayers /\ Range(p.eligiblePositions) \cap accepted # {}}

(* The iteration chose a best player among cands, or nobody if there is none. *)
ChoseBestOf(cands) ==
    IF cands = {} THEN lineup' = lineup
    ELSE /\ PushedOne
         /\ \E c \in cands : c.playerId = lineup'[Len(lineup')].playerId
         /\ \A c \in cands :
                lineup'[Len(lineup')].projectedPoints >= c.projectedPoints

PoolIndex(playerId) ==
    CHOOSE i \in 1..Len(playerPool) : playerPool[i].playerId = playerId

(* The projected points of the pool players that fill a slot, each once. *)
RECURSIVE PointsOfFilled(_)
PointsOfFilled(k) ==
    IF k = 0 THEN 0
    ELSE PointsOfFilled(k - 1)
         + (IF playerPool[k].playerId \in LineupIds
            THEN playerPool[k].projectedPoints ELSE 0)

(* The positions a slot draws its players from: the groups its branch of   *)
(* the loop visits.                                                        *)
AcceptedBy(position) ==
    CASE position = "FLEX" -> {"RB", "WR", "TE"}
      [] position = "SUPER_FLEX" -> UNION {Range(p.eligiblePositions) : p \in Range(playerPool)}
      [] OTHER -> {position}

----------------------------------------------------------------------------
(* C1: the lineup never holds a player twice, never has more entries than  *)
(* there are non-bench slots (at any moment of the loop: than the non-bench *)
(* slots handled so far), and the players pushed are exactly the players   *)
(* in usedPlayers, so a pushed player is not chosen for a later slot.      *)
C1_NoDoubleBooking ==
    /\ \A i, j \in 1..Len(lineup) : i # j => lineup[i].playerId # lineup[j].playerId
    /\ Len(lineup) <= Len(NonBench(rosterPositions))
    /\ pc = "optimize" =>
          /\ Len(lineup) <= Len(NonBench(SubSeq(rosterPositions, 1, slotIndex - 1)))
          /\ usedPlayers = LineupIds

(* A player eligible for RB and WR fills the RB slot and the FLEX slot     *)
(* after it stays empty, the only eligible player being used.              *)
C1_Witness ==
    /\ pc = "done"
    /\ rosterPositions = <<"RB", "FLEX">>
    /\ Len(playerPool) = 1
    /\ Len(playerPool[1].eligiblePositions) = 2
    /\ Len(lineup) = 1
    /\ lineup[1].lineupPosition = "RB"

(* C2: an iteration for a fixed slot pushes an unused pool player eligible *)
(* for the slot's position whose projected points are maximal among those  *)
(* players, and pushes nobody only when there is no such player.           *)
C2_FixedSlotTakesBest ==
    [][\A position \in SlotNames :
          (IsFixedSlot(position) /\ SlotStep(position))
              => ChoseBestOf(Candidates({position}))]_vars

(* A fixed slot was filled by a player that a lower-projected eligible     *)
(* player precedes in the pool.                                            *)
C2_Witness ==
    /\ pc = "done"
    /\ \E i \in 1..Len(lineup) :
          /\ IsFixedSlot(lineup[i].lineupPosition)
          /\ \E k \in 1..Len(playerPool) :
                /\ k < PoolIndex(lineup[i].playerId)
                /\ lineup[i].lineupPosition \in Range(playerPool[k].eligiblePositions)
                /\ playerPool[k].projectedPoints < lineup[i].projectedPoints

(* C3: an iteration for a FLEX slot pushes an unused pool player eligible  *)
(* for RB, WR or TE whose projected points are maximal among those         *)
(* players; and slots [QB, RB, RB, FLEX, BN] with QB1:20, RB1:15, RB2:12,  *)
(* WR1:14, RB3:8 end with the lineup QB1, RB1, RB2, WR1 and the total 61.  *)
C3_FlexTakesBest ==
    /\ [][SlotStep("FLEX") => ChoseBestOf(Candidates({"RB", "WR", "TE"}))]_vars
    /\ []((IsScenarioA /\ pc = "done") =>
            /\ [i \in 1..Len(lineup) |-> lineup[i].playerId]
                   = <<"QB1", "RB1", "RB2", "WR1">>
            /\ [i \in 1..Len(lineup) |-> lineup[i].lineupPosition]
                   = <<"QB", "RB", "RB", "FLEX">>
            /\ optimalProjection = 6100)

C3_Witness ==
    /\ IsScenarioA
    /\ pc = "done"
    /\ Len(lineup) = 4
    /\ lineup[4].playerId = "WR1"

(* C4: an iteration for a SUPER_FLEX slot pushes the highest-projected     *)
(* unused player of the pool, and leaves the slot unfilled only when the   *)
(* pool holds no unused player.                                            *)
C4_SuperFlexNeverEmpty ==
    [][SlotStep("SUPER_FLEX") =>
          LET unused == {p \in Range(playerPool) : p.playerId \notin usedPlayers}
          IN ChoseBestOf(unused)]_vars

(* C5: the player in a SUPER_FLEX slot is eligible for QB, RB, WR or TE.   *)
C5_SuperFlexOffenseOnly ==
    \A i \in 1..Len(lineup) :
        lineup[i].lineupPosition = "SUPER_FLEX"
            => Range(lineup[i].eligiblePositions) \cap {"QB", "RB", "WR", "TE"} # {}

(* C6: the returned lineup has one entry per non-bench slot, entry i being *)
(* the entry of the i-th non-bench slot.                                   *)
C6_OneEntryPerSlot ==
    pc = "done" =>
        /\ Len(lineup) = Len(NonBench(rosterPositions))
        /\ \A i \in 1..Len(lineup) :
              lineup[i].lineupPosition = NonBench(rosterPositions)[i]

(* C7: the total of the returned lineup is the sum of the projected points *)
(* of the pool players that fill a slot, each counted once; a slot left    *)
(* unfilled and a bench slot add nothing.                                  *)
C7_TotalIsSumOfFilled ==
    pc = "done" =>
        /\ optimalProjection = PointsOfFilled(Len(playerPool))
        /\ Len(NonBench(rosterPositions)) = 0 => optimalProjection = 0

(* A lineup with two filled slots, one of them worth 12.34 points.         *)
C7_Witness ==
    /\ pc = "done"
    /\ Len(lineup) = 2
    /\ \E i \in 1..2 : lineup[i].projectedPoints = 1234
    /\ optimalProjection > 1234

(* C8: whenever an iteration pushes a player, no unused pool player        *)
(* eligible for the slot with the same projected points stands earlier in  *)
(* the pool, whatever the slot kind and whatever group either is in.       *)
C8_TieGoesToEarlier ==
    [][\A position \in SlotNames :
          (SlotStep(position) /\ Len(lineup') = Len(lineup) + 1) =>
              \A c \in Candidates(AcceptedBy(position)) :
                  c.projectedPoints = lineup'[Len(lineup')].projectedPoints
                      => PoolIndex(lineup'[Len(lineup')].playerId) <= PoolIndex(c.playerId)]_vars

(* C9: the second call on the same inputs returns the lineup of the first, *)
(* entry by entry, the slot of each entry included.                        *)
C9_Deterministic ==
    Len(results) = 2 => results[1] = results[2]

(* Two calls were made; the lineup has a filled slot and an unfilled one.  *)
C9_Witness ==
    /\ Len(results) = 2
    /\ Len(results[2]) = 1
    /\ Len(NonBench(rosterPositions)) = 2

(* C10: every pool player and every lineup entry has status 'Active', and  *)
(* is a roster player whose players record has status 'Active'.            *)
C10_OnlyActive ==
    /\ \A i \in 1..Len(playerPool) : playerPool[i].status = "Active"
    /\ \A i \in 1..Len(lineup) :
          /\ lineup[i].status = "Active"
          /\ lineup[i].playerId \in Range(roster.players)
          /\ HasRecord(lineup[i].playerId)
          /\ players[lineup[i].playerId].status = "Active"

(* The roster holds a player whose record exists with a status other than  *)
(* 'Active' and whose projection is higher than that of the active player  *)
(* that fills the slot of its position.                                    *)
C10_Witness ==
    /\ pc = "done"
    /\ \E id \in Range(roster.players) :
          /\ HasRecord(id)
          /\ players[id].status # "Active"
          /\ \E i \in 1..Len(lineup) :
                /\ lineup[i].lineupPosition = players[id].position
                /\ lineup[i].projectedPoints < ToFixed2(playerProjections[id].value)

(* C11: groupPlayersByPosition, optimizeLineup and findLineupChanges leave *)
(* the player pool as line 108 built it -- the same players in the same    *)
(* order with the same field values, at every step and after the run --    *)
(* and no step changes the roster, its starters list once read, or the     *)
(* slot list.                                                              *)
C11_InputsUnchanged ==
    /\ []((pc \in {"group", "optimize", "changes", "done"}) =>
            playerPool = BuildPlayerPool(roster.players, playerProjections))
    /\ [][/\ (pc \in {"group", "optimize", "changes"}) => playerPool' = playerPool
          /\ roster' = roster
          /\ rosterPositions' = rosterPositions
          /\ (pc = "changes") => currentStarters' = currentStarters]_vars

(* A run is over whose pool is not in descending order of projected points, *)
(* whose lineup has two entries and whose change list is not empty.         *)
C11_Witness ==
    /\ pc = "done"
    /\ Len(playerPool) = 2
    /\ playerPool[1].projectedPoints < playerPool[2].projectedPoints
    /\ Len(lineup) = 2
    /\ changes # <<>>

(* C12: when a run is over, the change list holds exactly one Change for   *)
(* each index of the starters whose starter differs from the lineup's      *)
(* player at that index -- also when the lineup has no player there -- and *)
(* none for an index where they match.                                     *)
C12_OneChangePerDifferingIndex ==
    (pc = "done") =>
        \A i \in 1..Len(currentStarters) :
            Cardinality({k \in 1..Len(changes) : changes[k].position = i - 1})
              = IF currentStarters[i] # OptimizedIdAt(lineup, i - 1) THEN 1 ELSE 0

(* C13: when a run is over, the gain of each Change is the suggested       *)
(* player's projected points minus the current player's own projected      *)
(* points, to one decimal; in Scenario D the change list is the one Change *)
(* at index 0 from the quarterback projected at 10 to QB1, with gain 10.0. *)
C13_GainIsOwnProjectionDifference ==
    (pc = "done") =>
        /\ \A k \in 1..Len(changes) :
              changes[k].projectedPointsGain
                = Num(ToFixed1(lineup[changes[k].position + 1].projectedPoints
                               - ToFixed2(playerProjections[changes[k].current].value)))
        /\ IsScenarioD =>
              changes = <<[position |-> 0, current |-> "QB3", suggested |-> "QB1",
                           projectedPointsGain |-> Num(100)]>>

(* C14: diff law -- when a run is over whose starters are the player ids   *)
(* of the lineup optimizeLineup produced, in the same order, the change    *)
(* list is empty.                                                          *)
C14_DiffOfLineupWithItself ==
    (pc = "done" /\ currentStarters = [i \in 1..Len(lineup) |-> lineup[i].playerId])
        => changes = <<>>

(* A run is over whose starters are the two players of its lineup, in the  *)
(* lineup's order.                                                         *)
C14_Witness ==
    /\ pc = "done"
    /\ Len(lineup) = 2
    /\ currentStarters = <<lineup[1].playerId, lineup[2].playerId>>

(* The player positions the tools name. *)
KnownPositions == {"QB", "RB", "WR", "TE", "K", "DEF"}

HasInvalidSlot ==
    \E i \in 1..Len(rosterPositions) :
        rosterPositions[i] \notin {"BN", "FLEX", "SUPER_FLEX"} \cup KnownPositions

(* C15: in a call whose slot list holds a name that is neither BN, FLEX,   *)
(* SUPER_FLEX nor a player position, no slot is ever filled and the call   *)
(* never gets to totals, a change list or a returned lineup.               *)
C15_InvalidSlotIsFatal ==
    HasInvalidSlot =>
        /\ lineup = <<>>
        /\ results = <<>>
        /\ pc \notin {"changes", "done"}

(* C16: no lineup entry is a player whose projected-points value is        *)
(* negative or not a number.                                               *)
C16_NoInvalidProjectionInLineup ==
    \A i \in 1..Len(lineup) :
        /\ playerProjections[lineup[i].playerId].isNumber
        /\ playerProjections[lineup[i].playerId].value >= 0
        /\ lineup[i].projectedPoints >= 0

(* C17: the slot loop never raises: a call fails only where line 105 threw *)
(* on a projection that is no number, and from every state of the loop --  *)
(* whatever the pool, empty or smaller than the slot list -- the next slot *)
(* can be handled or the lineup returned.                                  *)
C17_NeverFailsForNoSolution ==
    /\ (pc = "failed") =>
          /\ PoolThrows(roster.players, playerProjections)
          /\ lineup = <<>>
    /\ (pc = "optimize") =>
          ENABLED (SkipBench \/ FillFlex \/ FillSuperFlex \/ FillFixed
                   \/ ComputeTotals)

(* A run over an empty pool and two slots to fill is over, with an empty   *)
(* lineup.                                                                 *)
C17_Witness ==
    /\ pc = "done"
    /\ playerPool = <<>>
    /\ Len(NonBench(rosterPositions)) = 2
    /\ lineup = <<>>
    /\ failure = ""

(* The projection of a player is missing or malformed: the fetch rejected, *)
(* the response is not OK, has no stats, no pts_ppr, or a pts_ppr that is  *)
(* no number.                                                              *)
MissingOrMalformed(playerId) ==
    LET r == ProjectionResponse(playerId) IN
    \/ r.rejected
    \/ ~r.ok
    \/ ~r.has_stats
    \/ ~r.has_pts_ppr
    \/ ~r.pts_ppr.isNumber

(* C18: once the projections are fetched, every roster player whose        *)
(* projection is missing or malformed has the projected points 0, and the  *)
(* call never ends in an error.                                            *)
C18_MissingOrMalformedIsZero ==
    /\ (pc # "projections") =>
          \A id \in Range(roster.players) :
              MissingOrMalformed(id) => playerProjections[id] = Num(0)
    /\ pc # "failed"

(* C19: every projected-points value of the projection map and of the      *)
(* player pool is non-negative.                                            *)
C19_ProjectedPointsNonNegative ==
    /\ \A id \in DOMAIN playerProjections : playerProjections[id].value >= 0
    /\ \A i \in 1..Len(playerPool) : playerPool[i].projectedPoints >= 0

(* C20: an iteration that fills a slot pushes a player whose projection as *)
(* fetched, at full precision, is not below that of any other unused pool  *)
(* player the slot accepts: projections that differ by less than a         *)
(* hundredth of a point are ranked by their true values.                   *)
C20_RanksByFullPrecision ==
    [][\A position \in UpstreamSlotNames :
          (SlotStep(position) /\ Len(lineup') > Len(lineup)) =>
              \A c \in Candidates(AcceptedBy(position)) :
                  playerProjections[lineup'[Len(lineup')].playerId].value
                      >= playerProjections[c.playerId].value]_vars

(* C21: the eligible positions of every pool player contain the player's   *)
(* primary position, and a run whose slot list has a fixed slot for the    *)
(* primary position of a pool player ends with that slot filled.           *)
C21_EligibleContainsPrimary ==
    /\ \A k \in 1..Len(playerPool) :
          playerPool[k].position \in Range(playerPool[k].eligiblePositions)
    /\ (pc = "done") =>
          \A k \in 1..Len(playerPool) :
              playerPool[k].position \in Range(rosterPositions)
                  => \E i \in 1..Len(lineup) :
                        lineup[i].lineupPosition = playerPool[k].position

SlotAccepts(position, player) ==
    CASE position = "BN" -> FALSE
      [] position = "FLEX" ->
            Range(player.eligiblePositions) \cap {"RB", "WR", "TE"} # {}
      [] position = "SUPER_FLEX" ->
            Range(player.eligiblePositions) \cap {"QB", "RB", "WR", "TE"} # {}
      [] OTHER -> position \in Range(player.eligiblePositions)

(* The maximum total over the legal assignments of distinct pool players   *)
(* of valid, that is non-negative, projection to the slots; a slot may     *)
(* stay empty.                                                             *)
RECURSIVE MaxLegalTotal(_, _)
MaxLegalTotal(slots, taken) ==
    IF slots = <<>> THEN 0
    ELSE LET rest == MaxLegalTotal(Tail(slots), taken)
             free == {k \in 1..Len(playerPool) :
                        /\ k \notin taken
                        /\ playerPool[k].projectedPoints >= 0
                        /\ SlotAccepts(Head(slots), playerPool[k])}
             with == {playerPool[k].projectedPoints
                        + MaxLegalTotal(Tail(slots), taken \cup {k}) : k \in free}
         IN CHOOSE t \in with \cup {rest} : \A u \in with \cup {rest} : t >= u

(* Fixed slots come before every FLEX slot, FLEX slots before every        *)
(* SUPER_FLEX slot.                                                        *)
SlotRank(position) ==
    CASE position = "FLEX" -> 2
      [] position = "SUPER_FLEX" -> 3
      [] OTHER -> 1

ExpectedOrdering(slots) ==
    \A i, j \in 1..Len(NonBench(slots)) :
        i < j => SlotRank(NonBench(slots)[i]) <= SlotRank(NonBench(slots)[j])

SinglePositionPool ==
    \A k \in 1..Len(playerPool) : Len(playerPool[k].eligiblePositions) = 1

(* C25: when a run is over whose slot list is in the expected order and    *)
(* whose pool players are eligible for exactly one position each, the      *)
(* total of the lineup is the maximum total over all legal assignments.    *)
C25_GreedyIsOptimalInExpectedOrder ==
    (/\ pc = "done"
     /\ ~HasInvalidSlot
     /\ ExpectedOrdering(rosterPositions)
     /\ SinglePositionPool) =>
        optimalProjection = MaxLegalTotal(rosterPositions, {})

(* The current starters form a legal lineup: one pool player, that is one  *)
(* Active roster player, for each starting slot as far as the roster goes, *)
(* no player twice, each accepted by the slot at its index.                *)
LegalStarters ==
    /\ Distinct(currentStarters)
    /\ Len(currentStarters) <= Len(NonBench(rosterPositions))
    /\ \A i \in 1..Len(currentStarters) :
          \E k \in 1..Len(playerPool) :
              /\ playerPool[k].playerId = currentStarters[i]
              /\ SlotAccepts(NonBench(rosterPositions)[i], playerPool[k])

(* The projected points the pool holds for the starters, in hundredths. *)
RECURSIVE StartersPoolPoints(_)
StartersPoolPoints(starters) ==
    IF starters = <<>> THEN 0
    ELSE playerPool[PoolIndex(Head(starters))].projectedPoints
         + StartersPoolPoints(Tail(starters))

C27_OptimalHasNoChanges ==
    (pc = "done" /\ analysis.isOptimal) => changes = <<>>

(* String.prototype.startsWith *)
HasPrefix(s, p) == Len(s) >= Len(p) /\ SubSeq(s, 1, Len(p)) = p

(* The upstream data of the league an optimize_lineup request is about. *)
UpstreamOf(req) == sleeper[getLeagueConfig(req.league)]

IsOptimizeCall(req) ==
    req.name = "optimize_lineup" /\ getLeagueConfig(req.league) # Undefined

CoreSucceeds(core) ==
    /\ \A i \in 1..Len(CoreFetches) : core[CoreFetches[i]] = "ok"
    /\ core.rosterFound

IssuesProjectionFetch ==
    /\ pc = "core"
    /\ pc' = "fanout"

(* C28: projection fetches are issued only after all four core fetches    *)
(* have settled OK and the roster was found; when a core response is not  *)
(* OK or no roster matches, execute rejects with a message prefixed       *)
(* 'Failed to optimize lineup: ', no projection fetch is issued, no slot  *)
(* is assigned and no result is returned.                                 *)
C28_ProjectionsOnlyAfterCore ==
    /\ [](IsOptimizeCall(request) =>
            /\ (pc \notin {"request", "core", "failed"} \/ playerProjections # <<>>)
                  => CoreSucceeds(UpstreamOf(request).core)
            /\ (~CoreSucceeds(UpstreamOf(request).core) /\ pc \notin {"request", "core"})
                  => /\ pc = "failed"
                     /\ HasPrefix(failure, "Failed to optimize lineup: ")
                     /\ fetchesIssued \subseteq Range(CoreFetches)
                     /\ playerProjections = <<>>
                     /\ playerPool = <<>>
                     /\ usedPlayers = {}
                     /\ lineup = <<>>
                     /\ results = <<>>
                     /\ analysis = NoAnalysis
                     /\ response.kind # "result")
    /\ [][IssuesProjectionFetch =>
            /\ Range(CoreFetches) \subseteq Range(settled)
            /\ CoreSucceeds(UpstreamOf(request).core)
            /\ fetchesIssued' = Range(UpstreamOf(request).roster.players)]_vars

C28_Witness ==
    /\ IsOptimizeCall(request)
    /\ UpstreamOf(request).core.players = "not_ok"
    /\ pc = "failed"
    /\ Len(settled) = 4
    /\ response.kind = "error"

(* C29: the CallTool handler never rejects: whatever the tool name and    *)
(* whatever execute does, the handler resolves with a content list, and   *)
(* on failure the content is one text item starting with 'Error: '.       *)
C29_HandlerNeverRejects ==
    /\ response.kind \in {"none", "result", "error"}
    /\ response.kind # "none" => Len(response.content) >= 1
    /\ (pc \in {"done", "other_done"} /\ response # NoResponse)
          => response.kind = "result"
    /\ (pc = "failed" /\ response # NoResponse)
          => /\ response.kind = "error"
             /\ Len(response.content) = 1
             /\ response.content[1].type = "text"
             /\ HasPrefix(response.content[1].text, "Error: ")
    /\ (pc \in {"done", "other_done", "failed"} /\ response = NoResponse)
          => ENABLED (HandlerReturn \/ HandlerCatch)

C29_Witness ==
    /\ request = Request("optimize_lineup", "BOGUS")
    /\ response.kind = "error"
    /\ response.content[1].text = "Error: League configuration not found for: BOGUS"

(* What the responses alone determine: the projections, the pool and the  *)
(* lineup of a roster and a slot list.                                    *)
PoolOf(r) == BuildPlayerPool(r.players, ProjectionMap(r.players))

LineupOf(r, slots) == optimizeLineup(groupPlayersByPosition(PoolOf(r)), slots)

(* C23: for every order in which the core fetches and the projection      *)
(* fetches settle, the projections, the pool (order and points), the      *)
(* optimized lineup and the change list are those the responses           *)
(* determine.                                                             *)
C23_CompletionOrderIrrelevant ==
    IsOptimizeCall(request) =>
        LET up == UpstreamOf(request) IN
        /\ pc \in {"pool", "group", "optimize", "changes", "done"}
              => /\ roster = up.roster
                 /\ rosterPositions = up.rosterPositions
                 /\ playerProjections = ProjectionMap(up.roster.players)
        /\ pc \in {"group", "optimize", "changes", "done"}
              => playerPool = PoolOf(up.roster)
        /\ pc \in {"changes", "done"}
              => lineup = LineupOf(up.roster, up.rosterPositions)
        /\ pc = "done"
              => /\ changes = findLineupChanges(currentStarters,
                                 LineupOf(up.roster, up.rosterPositions))
                 /\ results = <<LineupOf(up.roster, up.rosterPositions)>>

C23_Witness ==
    /\ IsOptimizeCall(request)
    /\ pc = "done"
    /\ outOfOrder = {"core", "fanout"}
    /\ Len(lineup) = 2
    /\ lineup[1].projectedPoints # lineup[2].projectedPoints
    /\ changes # <<>>

(* C30: when every fetch settles at last, every optimize_lineup call      *)
(* completes, with a result or with an error: a rejected projection fetch *)
(* does not block the fan-out, and the slot loop ends after one pass.     *)
C30_CallCompletes ==
    /\ <>(request.name = "optimize_lineup" => pc \in {"done", "failed"})
    /\ [][(pc = "optimize" /\ pc' = "optimize") => slotIndex' = slotIndex + 1]_vars
    /\ [](pc = "optimize" => slotIndex <= Len(rosterPositions) + 1)

C30_Witness ==
    /\ IsOptimizeCall(request)
    /\ pc = "done"
    /\ "REJ" \in Range(roster.players)
    /\ Len(roster.players) = 2
    /\ Len(rosterPositions) = 2
    /\ Len(lineup) = 2
    /\ response = ToolResult

(* A call's locals are those it has when it runs alone on the same        *)
(* upstream data.                                                         *)
ReturnsAsAlone(call) ==
    LET up == UpstreamOf(call.request)
        pool == PoolOf(up.roster)
        alone == LineupOf(up.roster, up.rosterPositions)
    IN /\ call.pc \in {"fanout", "pool", "group", "optimize", "changes", "done"}
             => /\ CoreSucceeds(up.core)
                /\ call.roster = up.roster
                /\ call.rosterPositions = up.rosterPositions
                /\ call.fetchesIssued = Range(up.roster.players)
       /\ call.pc \in {"pool", "group", "optimize", "changes", "done"}
             => call.playerProjections = ProjectionMap(up.roster.players)
       /\ call.pc \in {"group", "optimize", "changes", "done"}
             => call.playerPool = pool
       /\ call.pc \in {"optimize", "changes", "done"}
             => /\ call.playersByPosition = groupPlayersByPosition(pool)
                /\ call.usedPlayers \subseteq Range(up.roster.players)
       /\ call.pc \in {"changes", "done"}
             => /\ call.lineup = alone
                /\ call.usedPlayers = {alone[i].playerId : i \in 1..Len(alone)}
                /\ call.currentStarters \in StartersOf(up.roster, up.rosterPositions)
                /\ call.optimalProjection = SumProjected(alone)
                /\ call.totalProjected = ToFixed1(SumProjected(alone))
                /\ call.currentProjection =
                      CurrentProjection(call.currentStarters,
                                        ProjectionMap(up.roster.players))
       /\ call.pc = "done"
             => /\ call.results = <<alone>>
                /\ call.changes = findLineupChanges(call.currentStarters, alone)
                /\ call.analysis =
                      Analysis(SumProjected(alone), call.currentProjection)
                /\ call.failure = ""
                /\ call.response \in {NoResponse, ToolResult}
       /\ call.pc = "failed"
             => /\ ~CoreSucceeds(up.core)
                /\ call.lineup = <<>>
                /\ call.response \in {NoResponse, CatchResult(call.failure)}

(* C22: two optimize_lineup calls on the shared instance, interleaved at  *)
(* their awaits, each work on and return what they would alone: the       *)
(* position groups, the used-player set and the lineup of a call are its  *)
(* own.                                                                   *)
C22_ConcurrentCallsAsAlone ==
    /\ ReturnsAsAlone(CallState)
    /\ suspended # NoCall => ReturnsAsAlone(suspended)

C22_Witness ==
    /\ suspended # NoCall
    /\ response = ToolResult
    /\ active = 2
    /\ suspended.pc = "fanout"
    /\ suspended.settled # <<>>
    /\ suspended.request.league # request.league
    /\ suspended.roster # roster
    /\ Len(lineup) = 2

====
